---------------------------- MODULE Spec2Model ----------------------------
(***************************************************************************)
(* A model of the personal library manager of src/app.py: the in-session   *)
(* record store (st.session_state.library), the persisted file             *)
(* (LIBRARY_FILE) and the five pages of the Streamlit script.  Every       *)
(* action is one run of the script, triggered by one user interaction.     *)
(*                                                                         *)
(* Text is a sequence of characters; a character is a one-element name     *)
(* ("A", "a", "SIGMA", ...).  The persisted file is the sequence of JSON   *)
(* tokens json.dump writes (whitespace and the separators "," and ":" are  *)
(* elided: they carry no data).                                            *)
(***************************************************************************)
EXTENDS Integers, Sequences, FiniteSets, TLC

VARIABLES
    library,        \* st.session_state.library: the record store
    inSession,      \* 'library' in st.session_state
    file,           \* LIBRARY_FILE on disk: [exists, text]
    page,           \* the sidebar radio's selection
    request,        \* the user interaction that triggered the last script run
    notices,        \* the st.success / st.info / st.warning / st.error of the last run
    matching_books, \* search_book's result list of the last run
    stats,          \* the metrics and genre counts display_stats rendered
    lastSaved,      \* history: the store the file holds a complete save of
    faults,         \* history: number of I/O faults so far
    saveFailed,     \* history: a save has failed in this session
    mutated         \* history: an add or remove has changed the store in this session

vars == <<library, inSession, file, page, request, notices, matching_books,
          stats, lastSaved, faults, saveFailed, mutated>>

----------------------------------------------------------------------------
(* Bounds of the model *)

MaxBooks == 2

MaxFaults == 1

(* Program constants *)

MinYear == 1000

MaxYear == 2100

DefaultYear == 2023

----------------------------------------------------------------------------
(* Characters and str.lower() *)

Chars == {"A", "a", "B", "b", "\"", "\\", "'", "SIGMA", "sigma", "fsigma"}

CodePoint(c) ==
    CASE c = "A" -> 65
      [] c = "a" -> 97
      [] c = "B" -> 66
      [] c = "b" -> 98
      [] c = "\"" -> 34
      [] c = "\\" -> 92
      [] c = "'" -> 39
      [] c = "SIGMA" -> 931
      [] c = "sigma" -> 963
      [] c = "fsigma" -> 962

IsCased(c) == c \in {"A", "a", "B", "b", "SIGMA", "sigma", "fsigma"}

IsCaseIgnorable(c) == c = "'"

LowerChar(c) ==
    CASE c = "A" -> "a"
      [] c = "B" -> "b"
      [] c = "SIGMA" -> "sigma"
      [] OTHER -> c

RECURSIVE CasedBefore(_, _)
\* \p{cased}\p{case-ignorable}* ends right before position i+1
CasedBefore(s, i) ==
    IF i < 1 THEN FALSE
    ELSE IF IsCaseIgnorable(s[i]) THEN CasedBefore(s, i - 1)
    ELSE IsCased(s[i])

RECURSIVE CasedAfter(_, _)
\* \p{case-ignorable}*\p{cased} starts at position i
CasedAfter(s, i) ==
    IF i > Len(s) THEN FALSE
    ELSE IF IsCaseIgnorable(s[i]) THEN CasedAfter(s, i + 1)
    ELSE IsCased(s[i])

\* str.lower(): the capital sigma becomes the final sigma when it ends a word
Lower(s) ==
    [i \in 1..Len(s) |->
        IF s[i] = "SIGMA" /\ CasedBefore(s, i - 1) /\ ~CasedAfter(s, i + 1)
        THEN "fsigma"
        ELSE LowerChar(s[i])]

\* needle in hay
Contains(hay, needle) ==
    \E i \in 0..(Len(hay) - Len(needle)) :
        SubSeq(hay, i + 1, i + Len(needle)) = needle

----------------------------------------------------------------------------
(* json.dump / json.load *)

HexDigits == <<"0", "1", "2", "3", "4", "5", "6", "7", "8", "9",
               "a", "b", "c", "d", "e", "f">>

HexVal(d) == (CHOOSE i \in 1..16 : HexDigits[i] = d) - 1

Hex4(n) ==
    <<HexDigits[((n \div 4096) % 16) + 1], HexDigits[((n \div 256) % 16) + 1],
      HexDigits[((n \div 16) % 16) + 1], HexDigits[(n % 16) + 1]>>

\* a slip: a character outside ASCII written as a question mark
EscapeCharReplace(c) ==
    IF c \in {"\"", "\\"} THEN <<"\\", c>>
    ELSE IF CodePoint(c) > 127 THEN <<"?">>
    ELSE <<c>>

\* py_encode_basestring_ascii, one character
EscapeChar(c) ==
    IF c \in {"\"", "\\"} THEN <<"\\", c>>
    ELSE IF CodePoint(c) > 127 THEN <<"\\", "u">> \o Hex4(CodePoint(c))
    ELSE <<c>>

RECURSIVE EncodeString(_)
EncodeString(s) ==
    IF s = <<>> THEN <<>> ELSE EscapeChar(Head(s)) \o EncodeString(Tail(s))

RECURSIVE DecodeFrom(_, _)
\* py_scanstring: the characters of the escaped text e from position i on
DecodeFrom(e, i) ==
    IF i > Len(e) THEN <<>>
    ELSE IF e[i] # "\\" THEN <<e[i]>> \o DecodeFrom(e, i + 1)
    ELSE IF e[i + 1] = "u"
         THEN LET n == HexVal(e[i + 2]) * 4096 + HexVal(e[i + 3]) * 256
                       + HexVal(e[i + 4]) * 16 + HexVal(e[i + 5])
              IN  <<CHOOSE c \in Chars : CodePoint(c) = n>> \o DecodeFrom(e, i + 6)
         ELSE <<e[i + 1]>> \o DecodeFrom(e, i + 2)

DecodeString(e) == DecodeFrom(e, 1)

Digits == <<"0", "1", "2", "3", "4", "5", "6", "7", "8", "9">>

RECURSIVE EncodeInt(_)
\* int.__repr__ of a non-negative integer
EncodeInt(n) ==
    IF n < 10 THEN <<Digits[n + 1]>>
    ELSE EncodeInt(n \div 10) \o <<Digits[(n % 10) + 1]>>

RECURSIVE DecodeInt(_)
DecodeInt(ds) ==
    IF ds = <<>> THEN 0
    ELSE DecodeInt(SubSeq(ds, 1, Len(ds) - 1)) * 10
         + ((CHOOSE i \in 1..10 : Digits[i] = ds[Len(ds)]) - 1)

Punct(p) == [t |-> "punct", v |-> <<p>>]

StrTok(s) == [t |-> "str", v |-> EncodeString(s)]

NumTok(n) == [t |-> "num", v |-> EncodeInt(n)]

BoolTok(b) == [t |-> "lit", v |-> IF b THEN <<"true">> ELSE <<"false">>]

KeyTok(k) == [t |-> "str", v |-> <<k>>]

\* one dict of the list, keys in insertion order (lines 45-51)
EncodeBook(b) ==
    <<Punct("{"),
      KeyTok("title"), StrTok(b.title),
      KeyTok("author"), StrTok(b.author),
      KeyTok("year"), NumTok(b.year),
      KeyTok("genre"), StrTok(b.genre),
      KeyTok("read"), BoolTok(b.read),
      Punct("}")>>

RECURSIVE EncodeBooks(_)
EncodeBooks(books) ==
    IF books = <<>> THEN <<>>
    ELSE EncodeBook(Head(books)) \o EncodeBooks(Tail(books))

\* json.dump(st.session_state.library, file, indent=4)
JsonDump(books) == <<Punct("[")>> \o EncodeBooks(books) \o <<Punct("]")>>

IsValueTok(tok) == tok.t \in {"str", "num", "lit"}

DecodeValue(tok) ==
    CASE tok.t = "str" -> DecodeString(tok.v)
      [] tok.t = "num" -> DecodeInt(tok.v)
      [] tok.t = "lit" -> (tok.v = <<"true">>)

ParseFail == [ok |-> FALSE, next |-> 0, value |-> <<>>]

RECURSIVE ParsePairs(_, _, _)
\* the members of an object from token i on, up to its closing brace
ParsePairs(toks, i, acc) ==
    IF i > Len(toks) THEN ParseFail
    ELSE IF toks[i] = Punct("}") THEN [ok |-> TRUE, next |-> i + 1, value |-> acc]
    ELSE IF toks[i].t = "str" /\ i + 1 <= Len(toks) /\ IsValueTok(toks[i + 1])
         THEN ParsePairs(toks, i + 2,
                         (toks[i].v[1] :> DecodeValue(toks[i + 1])) @@ acc)
         ELSE ParseFail

RECURSIVE ParseItemsLenient(_, _, _)
\* a slip: the end of the text accepted in place of the closing bracket
ParseItemsLenient(toks, i, acc) ==
    IF i > Len(toks) THEN [ok |-> TRUE, next |-> i, value |-> acc]
    ELSE IF toks[i] = Punct("]")
         THEN IF i = Len(toks) THEN [ok |-> TRUE, next |-> i + 1, value |-> acc]
              ELSE ParseFail
    ELSE IF toks[i] = Punct("{")
         THEN LET r == ParsePairs(toks, i + 1, <<>>)
              IN  IF r.ok THEN ParseItemsLenient(toks, r.next, Append(acc, r.value))
                  ELSE ParseFail
         ELSE ParseFail

RECURSIVE ParseItems(_, _, _)
\* the elements of the array from token i on, up to the closing bracket,
\* which must be the last token of the text
ParseItems(toks, i, acc) ==
    IF i > Len(toks) THEN ParseFail
    ELSE IF toks[i] = Punct("]")
         THEN IF i = Len(toks) THEN [ok |-> TRUE, next |-> i + 1, value |-> acc]
              ELSE ParseFail
    ELSE IF toks[i] = Punct("{")
         THEN LET r == ParsePairs(toks, i + 1, <<>>)
              IN  IF r.ok THEN ParseItems(toks, r.next, Append(acc, r.value))
                  ELSE ParseFail
         ELSE ParseFail

\* json.load(file): [ok |-> FALSE] stands for json.JSONDecodeError
JsonLoad(toks) ==
    IF Len(toks) >= 1 /\ toks[1] = Punct("[") THEN ParseItems(toks, 2, <<>>)
    ELSE ParseFail

----------------------------------------------------------------------------
(* The inputs of the model *)

Pages == {"View All Books", "Add a Book", "Remove a Book", "Search for Books",
          "Statistics"}

Form(title, author, year, genre, read_status) ==
    [title |-> title, author |-> author, year |-> year, genre |-> genre,
     read_status |-> read_status]

\* the values of the form's widgets before the user touches them (lines 36-40)
DefaultForm == Form(<<>>, <<>>, DefaultYear, <<>>, "No")

\* the add forms a user submits: three with both required fields, three without
Submissions ==
    { Form(<<"a", "sigma", "a">>, <<"B", "\\">>, MinYear, <<>>, "No"),
      Form(<<"A", "SIGMA">>, <<"a", "'", "b">>, DefaultYear, <<"b">>, "Yes"),
      Form(<<"b", "\"">>, <<"B", "\\">>, MaxYear, <<"b">>, "No"),
      DefaultForm,
      Form(<<>>, <<"B", "\\">>, MinYear, <<"b">>, "Yes"),
      Form(<<"b", "\"">>, <<>>, MaxYear, <<>>, "No") }

SearchTerms == { <<>>, <<"A", "SIGMA">>, <<"a", "sigma">>, <<"B">> }

SearchFields == {"Title", "Author"}

Request(kind, form, index, search_by, search_term) ==
    [kind |-> kind, form |-> form, index |-> index, search_by |-> search_by,
     search_term |-> search_term]

\* a run in which no form, selection or search input is given
Plain(kind) == Request(kind, DefaultForm, 0, "Title", <<>>)

NoStats == [shown |-> FALSE, total |-> 0, read |-> 0, percentage |-> 0,
            genre_counts |-> <<>>]

NotSaved == [ok |-> FALSE, lib |-> <<>>]

----------------------------------------------------------------------------
(* Persistence *)

\* lines 10-20 on the first run of a session; read is "ok" or "error" (open or
\* read raises)
LoadLibrary(f, read) ==
    IF ~f.exists THEN [library |-> <<>>, notices |-> {}]
    ELSE IF read = "error" THEN [library |-> <<>>, notices |-> {"load_error"}]
    ELSE LET r == JsonLoad(f.text)
         IN  IF r.ok THEN [library |-> r.value, notices |-> {"loaded"}]
             ELSE [library |-> <<>>, notices |-> {"load_error"}]

\* a slip: only the newest record written instead of the whole store
SaveLibraryLastOnly(lib, f, outcome, k) ==
    CASE outcome = "ok" ->
            [file |-> [exists |-> TRUE,
                       text |-> JsonDump(IF lib = <<>> THEN <<>>
                                         ELSE <<lib[Len(lib)]>>)],
             notices |-> {"saved"}]
      [] outcome = "open_error" ->
            [file |-> f, notices |-> {"save_error"}]
      [] outcome = "write_error" ->
            [file |-> [exists |-> TRUE, text |-> SubSeq(JsonDump(lib), 1, k)],
             notices |-> {"save_error"}]

\* save_library; outcome is "ok", "open_error" (open raises, the file is
\* untouched) or "write_error" (open has truncated the file and only the first
\* k tokens reach it)
SaveLibrary(lib, f, outcome, k) ==
    CASE outcome = "ok" ->
            [file |-> [exists |-> TRUE, text |-> JsonDump(lib)],
             notices |-> {"saved"}]
      [] outcome = "open_error" ->
            [file |-> f, notices |-> {"save_error"}]
      [] outcome = "write_error" ->
            [file |-> [exists |-> TRUE, text |-> SubSeq(JsonDump(lib), 1, k)],
             notices |-> {"save_error"}]

\* where a failing write can cut the text: a write error leaves any proper
\* prefix; the model follows the cuts before the first token, after a title
\* and after each closed object (the last of them lacks only the closing
\* bracket)
WriteCuts(text) ==
    {k \in 0..(Len(text) - 1) :
        \/ k = 0
        \/ text[k] \in {Punct("["), Punct("}")}
        \/ (k > 1 /\ text[k - 1] = KeyTok("title"))}

\* the outcomes a save of lib can have
SaveOutcomes(lib) ==
    {<<"ok", 0>>, <<"open_error", 0>>}
        \cup {<<"write_error", k>> : k \in WriteCuts(JsonDump(lib))}

----------------------------------------------------------------------------
(* Queries *)

\* lines 94-100
RECURSIVE MatchingBooks(_, _, _)
MatchingBooks(books, search_by, search_term) ==
    IF books = <<>> THEN <<>>
    ELSE LET book == Head(books)
             rest == MatchingBooks(Tail(books), search_by, search_term)
         IN  IF \/ search_by = "Title" /\ Contains(Lower(book.title), search_term)
                \/ search_by = "Author" /\ Contains(Lower(book.author), search_term)
             THEN <<book>> \o rest
             ELSE rest

\* sum(1 for book in library if book["read"])
RECURSIVE ReadBooks(_)
ReadBooks(books) ==
    IF books = <<>> THEN 0
    ELSE (IF Head(books).read THEN 1 ELSE 0) + ReadBooks(Tail(books))

RECURSIVE GenreCountsSkipEmpty(_, _)
\* a slip: records without a genre left out of the distribution
GenreCountsSkipEmpty(books, genre_counts) ==
    IF books = <<>> THEN genre_counts
    ELSE LET genre == Head(books).genre
         IN  GenreCountsSkipEmpty(Tail(books),
                 IF genre = <<>> THEN genre_counts
                 ELSE IF genre \in DOMAIN genre_counts
                 THEN [genre_counts EXCEPT ![genre] = @ + 1]
                 ELSE (genre :> 1) @@ genre_counts)

\* lines 162-168
RECURSIVE GenreCounts(_, _)
GenreCounts(books, genre_counts) ==
    IF books = <<>> THEN genre_counts
    ELSE LET genre == Head(books).genre
         IN  GenreCounts(Tail(books),
                 IF genre \in DOMAIN genre_counts
                 THEN [genre_counts EXCEPT ![genre] = @ + 1]
                 ELSE (genre :> 1) @@ genre_counts)

\* f"{(read_books / total_books) * 100:.1f}" in tenths of a percent, rounded
\* half to even
PercentageRead(read_books, total_books) ==
    IF total_books > 0
    THEN LET q == (read_books * 1000) \div total_books
             r == (read_books * 1000) % total_books
         IN  IF 2 * r > total_books \/ (2 * r = total_books /\ q % 2 = 1)
             THEN q + 1 ELSE q
    ELSE 0

----------------------------------------------------------------------------
(* The pages.  Each gives the outcome of one run of main() on that page:     *)
(* the store, the file, the notices shown, the search result, the statistics *)

Outcome(lib, f, n, m, s) ==
    [library |-> lib, file |-> f, notices |-> n, matching_books |-> m, stats |-> s]

\* display_books(): the notice of an empty table
DisplayBooks(books) == IF books = <<>> THEN {"no_books"} ELSE {}

\* lines 195-200
ViewAllBooks(lib, f, clicked, outcome, k) ==
    IF clicked
    THEN LET sv == SaveLibrary(lib, f, outcome, k)
         IN  Outcome(lib, sv.file, DisplayBooks(lib) \cup sv.notices, <<>>, NoStats)
    ELSE Outcome(lib, f, DisplayBooks(lib), <<>>, NoStats)

\* lines 45-51
NewBook(form) ==
    [title |-> form.title, author |-> form.author, year |-> form.year,
     genre |-> form.genre, read |-> (form.read_status = "Yes")]

\* a slip: the author not required
AcceptedTitleOnly(form) == form.title # <<>>

\* if submitted and title and author
Accepted(form) == form.title # <<>> /\ form.author # <<>>

\* a slip: the new book put first
AddBookPrepend(lib, f, submitted, form, outcome, k) ==
    IF submitted /\ Accepted(form)
    THEN LET grown == <<NewBook(form)>> \o lib
             sv == SaveLibrary(grown, f, outcome, k)
         IN  Outcome(grown, sv.file, sv.notices \cup {"added"}, <<>>, NoStats)
    ELSE IF submitted
    THEN Outcome(lib, f, {"required"}, <<>>, NoStats)
    ELSE Outcome(lib, f, {}, <<>>, NoStats)

\* a slip: the append undone when the save fails
AddBookRollback(lib, f, submitted, form, outcome, k) ==
    IF submitted /\ Accepted(form)
    THEN LET grown == Append(lib, NewBook(form))
             sv == SaveLibrary(grown, f, outcome, k)
         IN  IF "save_error" \in sv.notices
             THEN Outcome(lib, sv.file, sv.notices, <<>>, NoStats)
             ELSE Outcome(grown, sv.file, sv.notices \cup {"added"}, <<>>, NoStats)
    ELSE IF submitted
    THEN Outcome(lib, f, {"required"}, <<>>, NoStats)
    ELSE Outcome(lib, f, {}, <<>>, NoStats)

\* add_book
AddBook(lib, f, submitted, form, outcome, k) ==
    IF submitted /\ Accepted(form)
    THEN LET grown == Append(lib, NewBook(form))
             sv == SaveLibrary(grown, f, outcome, k)
         IN  Outcome(grown, sv.file, sv.notices \cup {"added"}, <<>>, NoStats)
    ELSE IF submitted
    THEN Outcome(lib, f, {"required"}, <<>>, NoStats)
    ELSE Outcome(lib, f, {}, <<>>, NoStats)

\* a slip: pop() without the index, which takes the last record
PopLast(lib, index) == SubSeq(lib, 1, Len(lib) - 1)

\* list.pop(index), index counted from 0
Pop(lib, index) == SubSeq(lib, 1, index) \o SubSeq(lib, index + 2, Len(lib))

\* a slip: the store saved before the check for an empty store
RemoveBookSavesEmpty(lib, f, clicked, book_to_remove, outcome, k) ==
    IF lib = <<>>
    THEN LET sv == SaveLibrary(lib, f, outcome, k)
         IN  Outcome(lib, sv.file, sv.notices \cup {"empty"}, <<>>, NoStats)
    ELSE IF clicked
    THEN LET rest == Pop(lib, book_to_remove)
             sv == SaveLibrary(rest, f, outcome, k)
         IN  Outcome(rest, sv.file, sv.notices \cup {"removed"}, <<>>, NoStats)
    ELSE Outcome(lib, f, {}, <<>>, NoStats)

\* remove_book; book_to_remove is one of range(len(library))
RemoveBook(lib, f, clicked, book_to_remove, outcome, k) ==
    IF lib = <<>>
    THEN Outcome(lib, f, {"empty"}, <<>>, NoStats)
    ELSE IF clicked
    THEN LET rest == Pop(lib, book_to_remove)
             sv == SaveLibrary(rest, f, outcome, k)
         IN  Outcome(rest, sv.file, sv.notices \cup {"removed"}, <<>>, NoStats)
    ELSE Outcome(lib, f, {}, <<>>, NoStats)

\* search_book
SearchBook(lib, f, search_by, search_term) ==
    IF lib = <<>>
    THEN Outcome(lib, f, {"empty"}, <<>>, NoStats)
    ELSE IF search_term # <<>>
    THEN LET m == MatchingBooks(lib, search_by, Lower(search_term))
         IN  Outcome(lib, f, IF m # <<>> THEN {} ELSE {"no_match"}, m, NoStats)
    ELSE Outcome(lib, f, {}, <<>>, NoStats)

\* display_stats
DisplayStats(lib, f) ==
    IF lib = <<>>
    THEN Outcome(lib, f, {"empty"}, <<>>, NoStats)
    ELSE Outcome(lib, f, {}, <<>>,
                 [shown |-> TRUE,
                  total |-> Len(lib),
                  read |-> ReadBooks(lib),
                  percentage |-> PercentageRead(ReadBooks(lib), Len(lib)),
                  genre_counts |-> GenreCounts(lib, <<>>)])

\* main(): the page the sidebar selects
Main(lib, f, p, req, outcome, k) ==
    CASE p = "View All Books" ->
            ViewAllBooks(lib, f, req.kind = "click_save", outcome, k)
      [] p = "Add a Book" ->
            AddBook(lib, f, req.kind = "submit_add", req.form, outcome, k)
      [] p = "Remove a Book" ->
            RemoveBook(lib, f, req.kind = "click_remove", req.index, outcome, k)
      [] p = "Search for Books" ->
            SearchBook(lib, f, req.search_by, req.search_term)
      [] p = "Statistics" ->
            DisplayStats(lib, f)

----------------------------------------------------------------------------
(* The session *)

Init ==
    /\ library = <<>>
    /\ inSession = FALSE
    /\ file = [exists |-> FALSE, text |-> <<>>]
    /\ page = "View All Books"
    /\ request = Plain("none")
    /\ notices = {}
    /\ matching_books = <<>>
    /\ stats = NoStats
    /\ lastSaved = NotSaved
    /\ faults = 0
    /\ saveFailed = FALSE
    /\ mutated = FALSE

\* one run of the script in a session that has its store: main() on page p
Run(p, req, outcome, k) ==
    LET out == Main(library, file, p, req, outcome, k)
    IN  /\ inSession
        /\ "save_error" \in out.notices => faults < MaxFaults
        /\ library' = out.library
        /\ file' = out.file
        /\ page' = p
        /\ request' = req
        /\ notices' = out.notices
        /\ matching_books' = out.matching_books
        /\ stats' = out.stats
        /\ lastSaved' = IF "saved" \in out.notices
                        THEN [ok |-> TRUE, lib |-> out.library]
                        ELSE IF out.file = file THEN lastSaved ELSE NotSaved
        /\ faults' = IF "save_error" \in out.notices THEN faults + 1 ELSE faults
        /\ saveFailed' = (saveFailed \/ "save_error" \in out.notices)
        /\ mutated' = (mutated \/ out.library # library)
        /\ UNCHANGED inSession

\* the first run of a session: lines 10-20, then main() on the default page
Startup ==
    /\ ~inSession
    /\ \E read \in {"ok", "error"} :
         /\ read = "error" => file.exists /\ faults < MaxFaults
         /\ LET ld == LoadLibrary(file, read)
                out == Main(ld.library, file, "View All Books", Plain("open"), "ok", 0)
            IN  /\ library' = out.library
                /\ notices' = ld.notices \cup out.notices
                /\ matching_books' = out.matching_books
                /\ stats' = out.stats
         /\ faults' = IF read = "error" THEN faults + 1 ELSE faults
    /\ inSession' = TRUE
    /\ page' = "View All Books"
    /\ request' = Plain("open")
    /\ saveFailed' = FALSE
    /\ mutated' = FALSE
    /\ UNCHANGED <<file, lastSaved>>

\* the sidebar radio: the script runs on page p with no other input
Navigate ==
    \E p \in Pages : Run(p, Plain("navigate"), "ok", 0)

\* the "Save Library" button of the list page
ClickSave ==
    /\ page = "View All Books"
    /\ \E o \in SaveOutcomes(library) : Run(page, Plain("click_save"), o[1], o[2])

\* the "Add Book" button of the form
SubmitAdd ==
    /\ page = "Add a Book"
    /\ \E form \in Submissions :
         /\ Accepted(form) => Len(library) < MaxBooks
         /\ \E o \in SaveOutcomes(Append(library, NewBook(form))) :
              /\ ~Accepted(form) => o[1] = "ok"
              /\ Run(page, Request("submit_add", form, 0, "Title", <<>>), o[1], o[2])

\* the "Remove Selected Book" button, rendered only when the store is not empty
ClickRemove ==
    /\ page = "Remove a Book"
    /\ library # <<>>
    /\ \E i \in 0..(Len(library) - 1) :
         \E o \in SaveOutcomes(Pop(library, i)) :
            Run(page, Request("click_remove", DefaultForm, i, "Title", <<>>), o[1], o[2])

\* a search term entered, rendered only when the store is not empty
Search ==
    /\ page = "Search for Books"
    /\ library # <<>>
    /\ \E by \in SearchFields : \E term \in SearchTerms :
         Run(page, Request("search", DefaultForm, 0, by, term), "ok", 0)

\* the browser session ends: st.session_state is gone
EndSession ==
    /\ inSession
    /\ inSession' = FALSE
    /\ library' = <<>>
    /\ page' = "View All Books"
    /\ request' = Plain("close")
    /\ notices' = {}
    /\ matching_books' = <<>>
    /\ stats' = NoStats
    /\ saveFailed' = FALSE
    /\ mutated' = FALSE
    /\ UNCHANGED <<file, lastSaved, faults>>

Next ==
    \/ Startup
    \/ Navigate
    \/ ClickSave
    \/ SubmitAdd
    \/ ClickRemove
    \/ Search
    \/ EndSession

Spec == Init /\ [][Next]_vars

\* the shape of the state: the store holds books as add_book builds them
TypeOK ==
    /\ inSession \in BOOLEAN
    /\ page \in Pages
    /\ file.exists \in BOOLEAN
    /\ Len(library) <= MaxBooks
    /\ \A i \in 1..Len(library) :
          /\ DOMAIN library[i] = {"title", "author", "year", "genre", "read"}
          /\ library[i].title # <<>> /\ library[i].author # <<>>
          /\ library[i].year \in MinYear..MaxYear
          /\ library[i].read \in BOOLEAN
    /\ notices \subseteq {"loaded", "load_error", "saved", "save_error", "added",
                          "removed", "required", "empty", "no_books", "no_match"}
    /\ faults \in 0..MaxFaults

----------------------------------------------------------------------------
(* Properties *)

SaveAttempted(n) == "saved" \in n \/ "save_error" \in n

\* C1: a submitted add form whose title and author are both non-empty makes
\* the store one longer: the new store is the old one with the book of the
\* submitted title, author, year, genre and read flag appended at the end, and
\* every record stored before keeps its position and its values.
C1_AddAppends ==
    [][(request'.kind = "submit_add"
            /\ request'.form.title # <<>> /\ request'.form.author # <<>>)
        => /\ Len(library') = Len(library) + 1
           /\ library'[Len(library')] =
                 [title |-> request'.form.title,
                  author |-> request'.form.author,
                  year |-> request'.form.year,
                  genre |-> request'.form.genre,
                  read |-> (request'.form.read_status = "Yes")]
           /\ \A i \in 1..Len(library) : library'[i] = library[i]]_vars

\* an add onto a store that already holds a book, the new book read
C1_Witness ==
    /\ request.kind = "submit_add"
    /\ "added" \in notices
    /\ Len(library) >= 2
    /\ library[Len(library)].read
    /\ library[Len(library)].title = request.form.title

C3_RejectedAdd ==
    [][(request'.kind = "submit_add"
            /\ (request'.form.title = <<>> \/ request'.form.author = <<>>))
        => /\ library' = library
           /\ file' = file
           /\ notices' = {"required"}]_vars

\* a form with a title and no author was rejected while the store held a book
C3_Witness ==
    /\ request.kind = "submit_add"
    /\ request.form.title # <<>>
    /\ request.form.author = <<>>
    /\ notices = {"required"}
    /\ library # <<>>

\* C4: a run of remove_book on an empty store, or with an index outside the
\* store, leaves the store as it is and writes nothing to the file.
C4_RemoveNothing ==
    [][(page' = "Remove a Book" /\ inSession
            /\ (library = <<>> \/ request'.index \notin 0..(Len(library) - 1)))
        => /\ library' = library
           /\ file' = file
           /\ ~SaveAttempted(notices')]_vars

\* the remove page on an empty store, with a file on disk
C4_Witness ==
    /\ page = "Remove a Book"
    /\ inSession
    /\ library = <<>>
    /\ "empty" \in notices
    /\ file.exists

\* C5: a successful save followed by the load of a fresh session gives back
\* the saved store: loading the file a complete save has written yields the
\* same records, with the same field values, in the same order, and so the
\* store a fresh session starts with is the saved one.
C5_SaveLoadRoundTrip ==
    /\ lastSaved.ok =>
          LoadLibrary(file, "ok") = [library |-> lastSaved.lib, notices |-> {"loaded"}]
    /\ (request.kind = "open" /\ lastSaved.ok /\ "loaded" \in notices)
          => library = lastSaved.lib

\* a fresh session has loaded a saved store of two books
C5_Witness ==
    /\ request.kind = "open"
    /\ lastSaved.ok
    /\ "loaded" \in notices
    /\ Len(library) >= 2
    /\ library[1] # library[2]

\* C6: when the save of an add or a remove fails the change to the store is
\* kept and the session goes on; every add or remove that changes the store
\* attempts a save; and a save that succeeds leaves the file holding the
\* whole store of that moment.
C6_SaveFailureKeepsStore ==
    [][/\ "save_error" \in notices'
            => /\ inSession'
               /\ request'.kind = "submit_add" => Len(library') = Len(library) + 1
               /\ request'.kind = "click_remove" => Len(library') = Len(library) - 1
       /\ (inSession /\ inSession' /\ library' # library) => SaveAttempted(notices')
       /\ "saved" \in notices'
            => file'.exists /\ file'.text = JsonDump(library')]_vars

\* after a failed save in this session a later add has saved the store
C6_Witness ==
    /\ saveFailed
    /\ request.kind = "submit_add"
    /\ notices = {"saved", "added"}
    /\ Len(library) >= 2

\* C7: the store is initialised once per session, on its first run: from the
\* file when it holds a complete save and reading it succeeds, and as the
\* empty sequence when the file is missing or reading or parsing it fails;
\* the session continues either way, and no later run loads again.
C7_LoadOnce ==
    [][/\ (~inSession /\ inSession')
            => /\ (lastSaved.ok /\ faults' = faults)
                    => library' = lastSaved.lib /\ "loaded" \in notices'
               /\ (~lastSaved.ok \/ faults' > faults) => library' = <<>>
               /\ (file.exists /\ library' = <<>> /\ ~lastSaved.ok)
                    => "load_error" \in notices'
       /\ (inSession /\ inSession')
            => /\ "loaded" \notin notices' /\ "load_error" \notin notices'
               /\ library' # library
                    => request'.kind \in {"submit_add", "click_remove"}]_vars

\* a session started on a file cut short after a whole record
C7_Witness ==
    /\ request.kind = "open"
    /\ file.exists
    /\ Len(file.text) > 1
    /\ file.text[Len(file.text)] = Punct("}")
    /\ library = <<>>
    /\ "load_error" \in notices

\* letters compared without regard to case: the three sigmas are one letter
FoldChar(c) == IF c = "fsigma" THEN "sigma" ELSE LowerChar(c)

FoldCase(s) == [i \in 1..Len(s) |-> FoldChar(s[i])]

\* the positions of the records whose chosen field contains the term, case
\* apart
MatchPositions(books, search_by, search_term) ==
    {i \in 1..Len(books) :
        Contains(FoldCase(IF search_by = "Title" THEN books[i].title
                          ELSE books[i].author),
                 FoldCase(search_term))}

RECURSIVE Pick(_, _, _)
\* the records of books at the positions in keep, from position i on, in order
Pick(books, keep, i) ==
    IF i > Len(books) THEN <<>>
    ELSE (IF i \in keep THEN <<books[i]>> ELSE <<>>) \o Pick(books, keep, i + 1)

\* C8: a search with a non-empty term returns exactly the records whose
\* chosen field contains the term as a substring, letter case apart, in the
\* order of the store; an empty term returns nothing.
C8_SearchCaseInsensitive ==
    request.kind = "search"
        => matching_books =
              IF request.search_term = <<>> THEN <<>>
              ELSE Pick(library,
                        MatchPositions(library, request.search_by, request.search_term),
                        1)

\* the records of the store with the given read flag
ReadPositions(books) == {i \in 1..Len(books) : books[i].read}

GenrePositions(books, genre) == {i \in 1..Len(books) : books[i].genre = genre}

RECURSIVE SumCounts(_, _)
SumCounts(counts, genres) ==
    IF genres = {} THEN 0
    ELSE LET g == CHOOSE x \in genres : TRUE
         IN  counts[g] + SumCounts(counts, genres \ {g})

\* what the statistics page shows of a store
StatsOf(books, shown) ==
    /\ shown.shown
    /\ shown.total = Len(books)
    /\ shown.read = Cardinality(ReadPositions(books))
    /\ DOMAIN shown.genre_counts = {books[i].genre : i \in 1..Len(books)}
    /\ \A g \in DOMAIN shown.genre_counts :
          shown.genre_counts[g] = Cardinality(GenrePositions(books, g))
    /\ SumCounts(shown.genre_counts, DOMAIN shown.genre_counts) = shown.total

\* C9 as stated: for every store, the empty one included, the statistics give
\* total = number of records, read = number of read records, and genre counts
\* (the empty genre an entry of its own) that sum to total; on the empty store
\* total = 0, read = 0 and percentage = 0.
C9_StatsEveryStore ==
    (inSession /\ page = "Statistics")
        => /\ StatsOf(library, stats)
           /\ library = <<>> => stats.percentage = 0

\* C9: for every store that is not empty the statistics give total = number
\* of records, read = number of read records, and genre counts (the empty
\* genre an entry of its own) that sum to total; on the empty store
\* display_stats computes nothing and shows only that the library is empty.
C9_StatsNonEmptyStore ==
    (inSession /\ page = "Statistics")
        => IF library = <<>>
           THEN ~stats.shown /\ notices = {"empty"}
           ELSE StatsOf(library, stats)

\* statistics of two books, one read, one of them with no genre
C9_Witness ==
    /\ inSession
    /\ page = "Statistics"
    /\ stats.shown
    /\ stats.total = 2
    /\ stats.read = 1
    /\ <<>> \in DOMAIN stats.genre_counts
    /\ Cardinality(DOMAIN stats.genre_counts) = 2

\* C10: in a session in which no save has failed, after every add or remove
\* that changed the store the file holds the whole store, record for record in
\* the same order; navigation, search and the statistics view change neither
\* the store nor the file.
C10_FileFollowsStore ==
    [][/\ (inSession' /\ mutated' /\ ~saveFailed')
            => LoadLibrary(file', "ok") = [library |-> library', notices |-> {"loaded"}]
       /\ request'.kind \in {"navigate", "search"}
            => library' = library /\ file' = file]_vars

\* a search in a session that has added two books, every save a success
C10_Witness ==
    /\ inSession
    /\ mutated
    /\ ~saveFailed
    /\ request.kind = "search"
    /\ Len(library) = 2
    /\ library[1] # library[2]

=============================================================================
